---- MODULE Spec2Model ----
(***************************************************************************)
(* Phelps Holdings deal analyzer: the deal-finance calculator (compute),   *)
(* the minimum-down-payment solver and the verdict, in their command-line  *)
(* variant (deal_analyzer.py) and their dashboard variant (app.py).        *)
(*                                                                         *)
(* Numbers.  A Python float is modelled as an exact rational, a record     *)
(* [n |-> numerator, d |-> denominator] in lowest terms with d > 0;        *)
(* float("inf") is [n |-> 1, d |-> 0], for which the cross-multiplied      *)
(* comparisons below give the IEEE answers (inf >= x, not inf < x).        *)
(* The arithmetic of compute is exact.  The finite precision of a float    *)
(* is modelled where the solver depends on it: the bounds lo, hi and the   *)
(* midpoint are rounded to the nearest multiple of one money unit, ties to *)
(* even, as IEEE rounds to the nearest representable number.               *)
(***************************************************************************)
EXTENDS Integers, Sequences, FiniteSets

(***************************************************************************)
(* Float arithmetic                                                        *)
(***************************************************************************)
Abs(x) == IF x < 0 THEN -x ELSE x

RECURSIVE GCD(_, _)
GCD(a, b) == IF b = 0 THEN a ELSE GCD(b, a % b)

Rat(num, den) ==
    LET g == GCD(Abs(num), den)
    IN  [n |-> num \div g, d |-> den \div g]

FromInt(k) == [n |-> k, d |-> 1]

Zero == FromInt(0)

One == FromInt(1)

Inf == [n |-> 1, d |-> 0]

RAdd(a, b) == Rat(a.n * b.d + b.n * a.d, a.d * b.d)

RSub(a, b) == Rat(a.n * b.d - b.n * a.d, a.d * b.d)

RMul(a, b) ==
    LET g1 == GCD(Abs(a.n), b.d)
        g2 == GCD(Abs(b.n), a.d)
    IN  IF a.n = 0 \/ b.n = 0 THEN Zero
        ELSE [n |-> (a.n \div g1) * (b.n \div g2), d |-> (a.d \div g2) * (b.d \div g1)]

\* a / b for b # 0 (every division of the source is guarded against a zero divisor)
RDiv(a, b) ==
    IF b.n > 0 THEN RMul(a, [n |-> b.d, d |-> b.n])
    ELSE RMul(a, [n |-> -b.d, d |-> -b.n])

RECURSIVE RPow(_, _)
RPow(a, k) == IF k = 0 THEN One ELSE RMul(a, RPow(a, k - 1))

\* a < b by cross-multiplication, common factors taken out first; nothing is below
\* itself, inf is below nothing and every finite number is below inf
RLt(a, b) ==
    IF a.d = b.d THEN a.d # 0 /\ a.n < b.n
    ELSE IF a.d = 0 THEN FALSE
    ELSE IF b.d = 0 THEN TRUE
    ELSE LET gd == GCD(a.d, b.d)
             gn == GCD(Abs(a.n), Abs(b.n))
         IN  IF gn = 0 THEN FALSE
             ELSE (a.n \div gn) * (b.d \div gd) < (b.n \div gn) * (a.d \div gd)

RLe(a, b) == ~RLt(b, a)

RGe(a, b) == RLe(b, a)

RGt(a, b) == RLt(b, a)

\* the nearest integer to num/den (den > 0), ties to the even neighbour
RoundHalfEven(num, den) ==
    LET q == num \div den
        r == num % den
    IN  IF 2 * r < den THEN q
        ELSE IF 2 * r > den THEN q + 1
        ELSE IF q % 2 = 0 THEN q ELSE q + 1

\* a float rounded to the lattice of representable amounts
Fl(a) == FromInt(RoundHalfEven(a.n, a.d))

(***************************************************************************)
(* deal_analyzer.py: the calculator                                        *)
(***************************************************************************)
FeeRate == Rat(35, 1000)

\* a plausible slip: 3% in place of 3.5%
sba_guarantee_fee_three_pct(guaranteed_amount) == RMul(Rat(30, 1000), guaranteed_amount)

sba_guarantee_fee(guaranteed_amount) == RMul(FeeRate, guaranteed_amount)

annual_payment(principal, annual_rate, years) ==
    LET r == annual_rate
        n == years
        growth == RPow(RAdd(One, r), n)
    IN  IF RLe(principal, Zero) THEN Zero
        ELSE IF r = Zero THEN RDiv(principal, FromInt(n))
        ELSE RDiv(RMul(principal, RMul(r, growth)), RSub(growth, One))

\* a plausible slip: the stress multiplier applied to the salary alone
normalized_earnings_stressed_salary(deal, stress_mult) ==
    RSub(deal.sde, RMul(deal.management_salary, stress_mult))

\* line 43
normalized_earnings_of(deal, stress_mult) ==
    RMul(RSub(deal.sde, deal.management_salary), stress_mult)

\* a plausible slip: the clamp left out
bank_base_loan_unclamped(deal, down_payment, seller_note) ==
    RSub(RSub(deal.purchase_price, down_payment), seller_note)

\* a plausible slip: the down payment added to the loan
bank_base_loan_plus_down(deal, down_payment, seller_note) ==
    LET raw == RSub(RAdd(deal.purchase_price, down_payment), seller_note)
    IN  IF RLt(raw, Zero) THEN Zero ELSE raw

\* lines 47-49
bank_base_loan_of(deal, down_payment, seller_note) ==
    LET raw == RSub(RSub(deal.purchase_price, down_payment), seller_note)
    IN  IF RLt(raw, Zero) THEN Zero ELSE raw

\* a plausible slip: the stress applied to the price as well as to the earnings
compute_stressed_price(deal, down_payment, stress_mult) ==
    LET normalized_earnings == normalized_earnings_of(deal, stress_mult)
        seller_note == RMul(RMul(deal.purchase_price, stress_mult), deal.seller_note_pct)
        bank_base_loan == bank_base_loan_of(deal, down_payment, seller_note)
        guaranteed_amount == RMul(bank_base_loan, deal.sba_guarantee_pct)
        fee == sba_guarantee_fee(guaranteed_amount)
        bank_loan == RAdd(RAdd(bank_base_loan, deal.working_cap), fee)
        bank_annual == annual_payment(bank_loan, deal.bank_interest, deal.bank_term)
        seller_annual == IF RGt(seller_note, Zero)
                         THEN annual_payment(seller_note, deal.seller_note_interest,
                                             deal.seller_note_term)
                         ELSE Zero
        total_annual_debt == RAdd(bank_annual, seller_annual)
        dscr == IF RGt(total_annual_debt, Zero)
                THEN RDiv(normalized_earnings, total_annual_debt) ELSE Inf
        after_debt == RSub(normalized_earnings, total_annual_debt)
        coc == IF RGt(down_payment, Zero)
               THEN RMul(RDiv(after_debt, down_payment), FromInt(100)) ELSE Inf
    IN  [normalized_earnings |-> normalized_earnings,
         seller_note |-> seller_note,
         bank_base_loan |-> bank_base_loan,
         fee |-> fee,
         bank_loan |-> bank_loan,
         bank_annual |-> bank_annual,
         seller_annual |-> seller_annual,
         total_annual_debt |-> total_annual_debt,
         dscr |-> dscr,
         after_debt |-> after_debt,
         coc |-> coc]

compute(deal, down_payment, stress_mult) ==
    LET normalized_earnings == normalized_earnings_of(deal, stress_mult)
        seller_note == RMul(deal.purchase_price, deal.seller_note_pct)
        bank_base_loan == bank_base_loan_of(deal, down_payment, seller_note)
        guaranteed_amount == RMul(bank_base_loan, deal.sba_guarantee_pct)
        fee == sba_guarantee_fee(guaranteed_amount)
        bank_loan == RAdd(RAdd(bank_base_loan, deal.working_cap), fee)
        bank_annual == annual_payment(bank_loan, deal.bank_interest, deal.bank_term)
        seller_annual == IF RGt(seller_note, Zero)
                         THEN annual_payment(seller_note, deal.seller_note_interest,
                                             deal.seller_note_term)
                         ELSE Zero
        total_annual_debt == RAdd(bank_annual, seller_annual)
        dscr == IF RGt(total_annual_debt, Zero)
                THEN RDiv(normalized_earnings, total_annual_debt) ELSE Inf
        after_debt == RSub(normalized_earnings, total_annual_debt)
        coc == IF RGt(down_payment, Zero)
               THEN RMul(RDiv(after_debt, down_payment), FromInt(100)) ELSE Inf
    IN  [normalized_earnings |-> normalized_earnings,
         seller_note |-> seller_note,
         bank_base_loan |-> bank_base_loan,
         fee |-> fee,
         bank_loan |-> bank_loan,
         bank_annual |-> bank_annual,
         seller_annual |-> seller_annual,
         total_annual_debt |-> total_annual_debt,
         dscr |-> dscr,
         after_debt |-> after_debt,
         coc |-> coc]

(***************************************************************************)
(* deal_analyzer.py: the minimum-down-payment solver, one loop iteration   *)
(* at a time.  A solver call is a record: its bounds lo and hi, the last   *)
(* midpoint mid, the iterations done i, the number of DSCR evaluations     *)
(* evals, its position pc ("loop" or "returned") and its return value ret  *)
(* (none = TRUE is Python's None).                                         *)
(***************************************************************************)
Iterations == 60

SearchCeiling == Rat(80, 100)

NoneResult == [none |-> TRUE, value |-> Zero]

Some(x) == [none |-> FALSE, value |-> x]

\* a plausible slip: infeasibility tested at the lower bound
min_down_enter_tests_lo(deal, target_dscr, stress_mult) ==
    LET lo == Zero
        hi == Fl(RMul(deal.purchase_price, SearchCeiling))
        call == [lo |-> lo, hi |-> hi, mid |-> Zero, i |-> 0, evals |-> 0,
                 pc |-> "loop", ret |-> NoneResult]
    IN  IF RLt(compute(deal, lo, stress_mult).dscr, target_dscr)
        THEN [call EXCEPT !.pc = "returned", !.ret = NoneResult, !.evals = 1]
        ELSE [call EXCEPT !.pc = "returned", !.ret = Some(Zero), !.evals = 2]

\* lines 84-93: the bounds and the two early exits
min_down_enter(deal, target_dscr, stress_mult) ==
    LET lo == Zero
        hi == Fl(RMul(deal.purchase_price, SearchCeiling))
        call == [lo |-> lo, hi |-> hi, mid |-> Zero, i |-> 0, evals |-> 0,
                 pc |-> "loop", ret |-> NoneResult]
    IN  IF RLt(compute(deal, hi, stress_mult).dscr, target_dscr)
        THEN [call EXCEPT !.pc = "returned", !.ret = NoneResult, !.evals = 1]
        ELSE IF RGe(compute(deal, lo, stress_mult).dscr, target_dscr)
        THEN [call EXCEPT !.pc = "returned", !.ret = Some(Zero), !.evals = 2]
        ELSE [call EXCEPT !.evals = 2]

\* line 96, rounded as a float is
midpoint(lo, hi) == Fl(RDiv(RAdd(lo, hi), FromInt(2)))

\* a plausible slip: the branches of the bisection swapped
min_down_iterate_swapped(call, deal, target_dscr, stress_mult) ==
    LET mid == midpoint(call.lo, call.hi)
        dscr_mid == compute(deal, mid, stress_mult).dscr
    IN  IF RGe(dscr_mid, target_dscr)
        THEN [call EXCEPT !.lo = mid, !.mid = mid, !.i = @ + 1, !.evals = @ + 1]
        ELSE [call EXCEPT !.hi = mid, !.mid = mid, !.i = @ + 1, !.evals = @ + 1]

\* lines 96-101: one iteration of the loop
min_down_iterate(call, deal, target_dscr, stress_mult) ==
    LET mid == midpoint(call.lo, call.hi)
        dscr_mid == compute(deal, mid, stress_mult).dscr
    IN  IF RGe(dscr_mid, target_dscr)
        THEN [call EXCEPT !.hi = mid, !.mid = mid, !.i = @ + 1, !.evals = @ + 1]
        ELSE [call EXCEPT !.lo = mid, !.mid = mid, !.i = @ + 1, !.evals = @ + 1]

\* line 102
min_down_return(call) == [call EXCEPT !.pc = "returned", !.ret = Some(call.hi)]

\* a plausible slip: the lower threshold made strict
verdict_strict(dscr) ==
    IF RGe(dscr, Rat(125, 100)) THEN "SBA-Ready"
    ELSE IF RGt(dscr, Rat(110, 100)) THEN "Tight but possible"
    ELSE "Risky"

verdict(dscr) ==
    IF RGe(dscr, Rat(125, 100)) THEN "SBA-Ready"
    ELSE IF RGe(dscr, Rat(110, 100)) THEN "Tight but possible"
    ELSE "Risky"

(***************************************************************************)
(* app.py: the dashboard's copies of the same functions                    *)
(***************************************************************************)
\* a plausible slip: min in place of max
RMin(a, b) == IF RLt(a, b) THEN a ELSE b

RMax(a, b) == IF RLt(a, b) THEN b ELSE a

App_sba_guarantee_fee(guaranteed_amount) == RMul(Rat(35, 1000), guaranteed_amount)

App_annual_payment(principal, annual_rate, years) ==
    IF RLe(principal, Zero) THEN Zero
    ELSE LET r == annual_rate
             n == years
             growth == RPow(RAdd(One, r), n)
         IN  IF r = Zero THEN RDiv(principal, FromInt(n))
             ELSE RDiv(RMul(principal, RMul(r, growth)), RSub(growth, One))

App_compute(deal, down_payment, stress_mult) ==
    LET normalized_earnings == RMul(RSub(deal.sde, deal.management_salary), stress_mult)
        seller_note == RMul(deal.purchase_price, deal.seller_note_pct)
        bank_base_loan == RMax(RSub(RSub(deal.purchase_price, down_payment), seller_note), Zero)
        guaranteed_amount == RMul(bank_base_loan, deal.sba_guarantee_pct)
        fee == App_sba_guarantee_fee(guaranteed_amount)
        bank_loan == RAdd(RAdd(bank_base_loan, deal.working_cap), fee)
        bank_annual == App_annual_payment(bank_loan, deal.bank_interest, deal.bank_term)
        seller_annual == IF RGt(seller_note, Zero)
                         THEN App_annual_payment(seller_note, deal.seller_note_interest,
                                                 deal.seller_note_term)
                         ELSE Zero
        total_debt == RAdd(bank_annual, seller_annual)
    IN  [normalized_earnings |-> normalized_earnings,
         seller_note |-> seller_note,
         bank_base_loan |-> bank_base_loan,
         fee |-> fee,
         bank_loan |-> bank_loan,
         bank_annual |-> bank_annual,
         seller_annual |-> seller_annual,
         total_debt |-> total_debt,
         dscr |-> IF RGt(total_debt, Zero) THEN RDiv(normalized_earnings, total_debt) ELSE Inf,
         after_debt |-> RSub(normalized_earnings, total_debt)]

\* app.py line 121: what the dashboard keeps of a stress case
App_row(r) == <<r.normalized_earnings, r.dscr, r.after_debt>>

App_dscr_at(deal, down, stress_mult) == App_compute(deal, down, stress_mult).dscr

\* app.py lines 54-66
App_min_down_enter(deal, target_dscr, stress_mult) ==
    LET lo == Zero
        hi == Fl(RMul(deal.purchase_price, Rat(80, 100)))
        call == [lo |-> lo, hi |-> hi, mid |-> Zero, i |-> 0, evals |-> 0,
                 pc |-> "loop", ret |-> NoneResult]
    IN  IF RLt(App_dscr_at(deal, hi, stress_mult), target_dscr)
        THEN [call EXCEPT !.pc = "returned", !.ret = NoneResult, !.evals = 1]
        ELSE IF RGe(App_dscr_at(deal, lo, stress_mult), target_dscr)
        THEN [call EXCEPT !.pc = "returned", !.ret = Some(Zero), !.evals = 2]
        ELSE [call EXCEPT !.evals = 2]

\* app.py lines 69-73
App_min_down_iterate(call, deal, target_dscr, stress_mult) ==
    LET mid == midpoint(call.lo, call.hi)
    IN  IF RGe(App_dscr_at(deal, mid, stress_mult), target_dscr)
        THEN [call EXCEPT !.hi = mid, !.mid = mid, !.i = @ + 1, !.evals = @ + 1]
        ELSE [call EXCEPT !.lo = mid, !.mid = mid, !.i = @ + 1, !.evals = @ + 1]

\* app.py line 74
App_min_down_return(call) == [call EXCEPT !.pc = "returned", !.ret = Some(call.hi)]

(***************************************************************************)
(* The inputs                                                              *)
(***************************************************************************)
MaxPrice == 2

MaxTerm == 2

PriceValues == {FromInt(10 * k) : k \in 0..MaxPrice}

SdeValues == {FromInt(0), FromInt(5), FromInt(11)}

SalaryValues == {FromInt(0), FromInt(6)}

PctValues == {Zero, Rat(1, 10), Rat(3, 10)}

RateValues == {Zero, Rat(1, 2)}

TermValues == 1..MaxTerm

WorkingCapValues == {FromInt(0), FromInt(4)}

GuaranteeValues == {Rat(1, 2), Rat(3, 4)}

DownValues == {FromInt(0), FromInt(5), FromInt(25)}

TargetValues == {Rat(-3, 2), Rat(5, 4)}

\* the interest rates and terms of the two loans: each rate zero and positive,
\* each term shortest and longest
Financings ==
    {f \in [seller_note_interest : RateValues, seller_note_term : TermValues,
            bank_interest : RateValues, bank_term : TermValues] :
        /\ f.seller_note_term = (IF f.seller_note_interest = Zero THEN 1 ELSE MaxTerm)
        /\ f.bank_term \in {1, MaxTerm}
        /\ (f.bank_term = f.seller_note_term) = (f.bank_interest = Zero)}

Deals ==
    {[purchase_price |-> p, sde |-> s, management_salary |-> m, seller_note_pct |-> q,
      seller_note_interest |-> f.seller_note_interest,
      seller_note_term |-> f.seller_note_term,
      bank_interest |-> f.bank_interest, bank_term |-> f.bank_term,
      working_cap |-> w, sba_guarantee_pct |-> g] :
        p \in PriceValues, s \in SdeValues, m \in SalaryValues, q \in PctValues,
        f \in Financings, w \in WorkingCapValues, g \in GuaranteeValues}

\* the stress scenarios of both front ends, and the two the solver is run for
cases == <<One, Rat(90, 100), Rat(80, 100)>>

solver_cases == <<One, Rat(80, 100)>>

\* The end-to-end scenario, which is also the dashboard's default form (with a
\* management salary of 100,000).  Its amounts are held in units of 100 dollars.
Dollars(x) == Rat(x, 100)

ScenarioDeals ==
    {[purchase_price |-> Dollars(1600000), sde |-> Dollars(516000),
      management_salary |-> Dollars(100000), seller_note_pct |-> Rat(10, 100),
      seller_note_interest |-> f.seller_note_interest,
      seller_note_term |-> f.seller_note_term,
      bank_interest |-> f.bank_interest, bank_term |-> f.bank_term,
      working_cap |-> Dollars(0), sba_guarantee_pct |-> Rat(75, 100)] : f \in Financings}

Idle == [lo |-> Zero, hi |-> Zero, mid |-> Zero, i |-> 0, evals |-> 0,
         pc |-> "idle", ret |-> NoneResult]

(***************************************************************************)
(* The program: read the inputs, evaluate the base case, the stress cases, *)
(* then solve for the minimum down payment at each solver case.  The       *)
(* command-line program and the dashboard run side by side on the same     *)
(* inputs.                                                                 *)
(***************************************************************************)
VARIABLES deal, down_payment, target_dscr, pc,
          base, verdict_out, rows, app_base, app_rows,
          solver, app_solver, min_down, app_min_down

vars == <<deal, down_payment, target_dscr, pc, base, verdict_out, rows, app_base,
          app_rows, solver, app_solver, min_down, app_min_down>>

inputs == <<deal, down_payment, target_dscr>>

NoResult == [computed |-> FALSE]

Started ==
    /\ pc = "evaluate"
    /\ base = NoResult
    /\ app_base = NoResult
    /\ verdict_out = ""
    /\ rows = <<>>
    /\ app_rows = <<>>
    /\ solver = Idle
    /\ app_solver = Idle
    /\ min_down = <<>>
    /\ app_min_down = <<>>

Init ==
    /\ deal \in Deals
    /\ down_payment \in DownValues
    /\ target_dscr \in TargetValues
    /\ Started

InitScenario ==
    /\ deal \in ScenarioDeals
    /\ down_payment = Dollars(160000)
    /\ target_dscr \in TargetValues
    /\ Started

\* deal_analyzer.py lines 148, 167; app.py lines 106-108
CanEvaluate == pc = "evaluate"

Evaluate ==
    /\ CanEvaluate
    /\ base' = compute(deal, down_payment, One)
    /\ verdict_out' = verdict(base'.dscr)
    /\ app_base' = App_compute(deal, down_payment, One)
    /\ pc' = "stress"
    /\ UNCHANGED <<inputs, rows, app_rows, solver, app_solver, min_down, app_min_down>>

\* deal_analyzer.py lines 172-174; app.py lines 117-121
CanStressCase == pc = "stress"

StressCase ==
    /\ CanStressCase
    /\ LET mult == cases[Len(rows) + 1]
       IN  /\ rows' = Append(rows, compute(deal, down_payment, mult))
           /\ app_rows' = Append(app_rows, App_row(App_compute(deal, down_payment, mult)))
    /\ pc' = IF Len(rows) + 1 = Len(cases) THEN "solve" ELSE "stress"
    /\ UNCHANGED <<inputs, base, verdict_out, app_base, solver, app_solver,
                   min_down, app_min_down>>

\* the stress multiplier of the solver call in progress
stress_now == solver_cases[Len(min_down) + 1]

CanEnter == pc = "solve" /\ solver.pc = "idle"

SolverEnter ==
    /\ CanEnter
    /\ solver' = min_down_enter(deal, target_dscr, stress_now)
    /\ app_solver' = App_min_down_enter(deal, target_dscr, stress_now)
    /\ UNCHANGED <<inputs, pc, base, verdict_out, rows, app_base, app_rows,
                   min_down, app_min_down>>

\* a plausible variant: a loop that stops once the bounds have met
LoopingUntilConverged(call) ==
    call.pc = "loop" /\ call.i < Iterations /\ RGt(RSub(call.hi, call.lo), One)

\* line 95: for _ in range(60)
Looping(call) == call.pc = "loop" /\ call.i < Iterations

CanIterate == pc = "solve" /\ ~(~Looping(solver) /\ ~Looping(app_solver))

SolverIterate ==
    /\ CanIterate
    /\ solver' = IF Looping(solver)
                 THEN min_down_iterate(solver, deal, target_dscr, stress_now)
                 ELSE solver
    /\ app_solver' = IF Looping(app_solver)
                     THEN App_min_down_iterate(app_solver, deal, target_dscr, stress_now)
                     ELSE app_solver
    /\ UNCHANGED <<inputs, pc, base, verdict_out, rows, app_base, app_rows,
                   min_down, app_min_down>>

Finished(call) == call.pc = "returned" \/ (call.pc = "loop" /\ ~Looping(call))

CanReturn == pc = "solve" /\ Finished(solver) /\ Finished(app_solver)

SolverReturn ==
    /\ CanReturn
    /\ LET r == IF solver.pc = "loop" THEN min_down_return(solver) ELSE solver
           a == IF app_solver.pc = "loop" THEN App_min_down_return(app_solver)
                ELSE app_solver
       IN  /\ min_down' = Append(min_down, r)
           /\ app_min_down' = Append(app_min_down, a)
    /\ solver' = Idle
    /\ app_solver' = Idle
    /\ pc' = IF Len(min_down) + 1 = Len(solver_cases) THEN "done" ELSE "solve"
    /\ UNCHANGED <<inputs, base, verdict_out, rows, app_base, app_rows>>

Next == Evaluate \/ StressCase \/ SolverEnter \/ SolverIterate \/ SolverReturn

Spec == Init /\ [][Next]_vars

SpecScenario == InitScenario /\ [][Next]_vars

(***************************************************************************)
(* The properties                                                          *)
(***************************************************************************)
\* every case has been evaluated and nothing has run since; base and rows are
\* never written again
Fresh == pc = "solve" /\ solver.pc = "idle" /\ min_down = <<>>

\* the representable down payments up to, and a little beyond, the highest price
GridDowns == {FromInt(k) : k \in 0..(10 * MaxPrice + 5)}

\* the representable down payments of the allowed range [0, 0.80 * purchase_price]
AllowedDowns ==
    {FromInt(k) : k \in 0..((4 * deal.purchase_price.n) \div (5 * deal.purchase_price.d))}

EarningsNonNegative == RGe(deal.sde, deal.management_salary)

\* the DSCR of stress case k at a down payment of the grid; at the program's own down
\* payment it is the DSCR the program computed
DscrAt(k, d) ==
    IF d = down_payment THEN rows[k].dscr ELSE compute(deal, d, cases[k]).dscr

\* the DSCR of case k does not fall from one representable down payment to the next
\* (nor, <= being transitive, between any two of them)
DscrMonotone(k) ==
    \A d \in GridDowns :
        RAdd(d, One) \in GridDowns => RLe(DscrAt(k, d), DscrAt(k, RAdd(d, One)))

\* what a returned solver call k promises
Feasible(k, d) == RGe(compute(deal, d, solver_cases[k]).dscr, target_dscr)

\* C1: a down payment d* the solver returns reaches the target, and no representable
\* down payment of the allowed range below d* does
C1_ReturnedDownIsMinimal ==
    pc = "done" =>
        \A k \in 1..Len(min_down) :
            ~min_down[k].ret.none =>
                /\ Feasible(k, min_down[k].ret.value)
                /\ \A d \in AllowedDowns :
                       RLt(d, min_down[k].ret.value) => ~Feasible(k, d)

C1_Witness ==
    /\ pc = "done"
    /\ \E k \in 1..Len(min_down) :
           /\ ~min_down[k].ret.none
           /\ RGt(min_down[k].ret.value, One)
           /\ min_down[k].i = 60

\* C2 as stated: for every deal, the DSCR does not fall as the down payment rises
C2_DscrMonotoneInDown ==
    Fresh => \A k \in 1..Len(rows) : DscrMonotone(k)

\* C2 as amended: it does not when the SDE is at least the management salary
C2_DscrMonotoneWhenEarningsNonNegative ==
    (Fresh /\ EarningsNonNegative) => \A k \in 1..Len(rows) : DscrMonotone(k)

C2_Witness ==
    /\ Fresh
    /\ EarningsNonNegative
    /\ \E d \in GridDowns :
           /\ RGt(d, down_payment)
           /\ RLt(rows[1].dscr, compute(deal, d, cases[1]).dscr)
           /\ RLt(compute(deal, d, cases[1]).dscr, Inf)

\* no representable down payment of the allowed range reaches the target of call k
Unreachable(k) == \A d \in AllowedDowns : ~Feasible(k, d)

\* C3 as stated: whenever the solver returns None, no down payment of the allowed
\* range, zero included, reaches the target
C3_NoneMeansUnreachable ==
    pc = "done" => \A k \in 1..Len(min_down) : min_down[k].ret.none => Unreachable(k)

\* where C3 does hold: None means unreachable when the SDE is at least the
\* management salary or the target is not negative (the solver's None exit, decided
\* at the upper bound alone, is wrong outside this domain)
C3_NoneMeansUnreachableInDomain ==
    (pc = "done" /\ (EarningsNonNegative \/ RGe(target_dscr, Zero))) =>
        \A k \in 1..Len(min_down) : min_down[k].ret.none => Unreachable(k)

C3_Witness ==
    /\ pc = "done"
    /\ RGt(deal.sde, deal.management_salary)
    /\ RGt(deal.purchase_price, Zero)
    /\ min_down[1].ret.none

Clamped == RGe(RAdd(down_payment, RMul(deal.purchase_price, deal.seller_note_pct)),
               deal.purchase_price)

\* C4 as stated: when the down payment and the seller note cover the price, the bank
\* base loan and the bank's annual payment are both zero
C4_LoanClamp ==
    (pc # "evaluate" /\ Clamped) => base.bank_base_loan = Zero /\ base.bank_annual = Zero

\* C4 as amended: the bank base loan and the fee are zero and the bank's annual payment
\* is the payment on the working capital alone, which is zero when there is none
C4_LoanClampUpToWorkingCap ==
    (pc # "evaluate" /\ Clamped) =>
        /\ base.bank_base_loan = Zero
        /\ base.fee = Zero
        /\ base.bank_loan = deal.working_cap
        /\ base.bank_annual =
               annual_payment(deal.working_cap, deal.bank_interest, deal.bank_term)
        /\ (deal.working_cap = Zero => base.bank_annual = Zero)

C4_Witness ==
    /\ pc # "evaluate"
    /\ Clamped
    /\ RGt(RAdd(down_payment, RMul(deal.purchase_price, deal.seller_note_pct)),
           deal.purchase_price)
    /\ RGt(deal.working_cap, Zero)
    /\ RGt(base.bank_annual, Zero)

\* C5 as stated: for every deal, the DSCR at stress 0.80 is at most the DSCR at 1.00
C5_StressMonotone ==
    Len(rows) = 3 => RLe(rows[3].dscr, rows[1].dscr)

\* C5 as amended: it is when the SDE is at least the management salary
C5_StressMonotoneWhenEarningsNonNegative ==
    (Len(rows) = 3 /\ EarningsNonNegative) => RLe(rows[3].dscr, rows[1].dscr)

C5_Witness ==
    /\ Len(rows) = 3
    /\ EarningsNonNegative
    /\ RLt(rows[3].dscr, rows[1].dscr)

DebtSide(r) ==
    <<r.seller_note, r.bank_base_loan, r.fee, r.bank_loan, r.bank_annual, r.seller_annual>>

\* C6: the stress multiplier changes nothing of the debt side of a result
C6_DebtInvariantToStress ==
    Fresh =>
        \A k \in 1..Len(rows) :
            /\ DebtSide(rows[k]) = DebtSide(base)
            /\ rows[k].total_annual_debt = base.total_annual_debt
            /\ LET a == App_compute(deal, down_payment, cases[k])
               IN  DebtSide(a) = DebtSide(app_base) /\ a.total_debt = app_base.total_debt

C6_Witness ==
    /\ Fresh
    /\ RGt(base.total_annual_debt, Zero)
    /\ RGt(base.seller_note, Zero)
    /\ rows[3].dscr # base.dscr
    /\ rows[3].after_debt # base.after_debt

\* C7: the verdict is SBA-Ready from 1.25 up, Tight but possible from 1.10 up to 1.25,
\* and Risky below 1.10
C7_VerdictThresholds ==
    pc # "evaluate" =>
        /\ RGe(base.dscr, Rat(5, 4)) => verdict_out = "SBA-Ready"
        /\ (RGe(base.dscr, Rat(11, 10)) /\ RLt(base.dscr, Rat(5, 4))) =>
               verdict_out = "Tight but possible"
        /\ RLt(base.dscr, Rat(11, 10)) => verdict_out = "Risky"
        /\ verdict_out \in {"SBA-Ready", "Tight but possible", "Risky"}

C7_Witness ==
    /\ pc # "evaluate"
    /\ base.dscr = Rat(11, 10)
    /\ verdict_out = "Tight but possible"

\* C8: the end-to-end scenario gives normalized earnings 416,000, seller note 160,000,
\* bank base loan 1,280,000, fee 33,600 and bank loan 1,313,600
C8_Scenario ==
    (/\ pc # "evaluate"
     /\ deal.purchase_price = Dollars(1600000)
     /\ deal.sde = Dollars(516000)
     /\ deal.management_salary = Dollars(100000)
     /\ down_payment = Dollars(160000)
     /\ deal.seller_note_pct = Rat(1, 10)
     /\ deal.sba_guarantee_pct = Rat(3, 4)
     /\ deal.working_cap = Zero) =>
        /\ base.normalized_earnings = Dollars(416000)
        /\ base.seller_note = Dollars(160000)
        /\ base.bank_base_loan = Dollars(1280000)
        /\ RMul(base.bank_base_loan, deal.sba_guarantee_pct) = Dollars(960000)
        /\ base.fee = Dollars(33600)
        /\ base.bank_loan = Dollars(1313600)
        /\ base.bank_loan =
               RAdd(RAdd(base.bank_base_loan, deal.working_cap),
                    RMul(Rat(35, 1000), RMul(base.bank_base_loan, deal.sba_guarantee_pct)))

C8_Witness ==
    /\ pc = "done"
    /\ deal.purchase_price = Dollars(1600000)
    /\ down_payment = Dollars(160000)
    /\ base.bank_loan = Dollars(1313600)

\* what a returned call looks like: an early exit before any iteration, or the final
\* hi after exactly 60 iterations and 62 evaluations of the DSCR
ReturnedShape(r) ==
    /\ r.pc = "returned"
    /\ \/ r.i = 0 /\ r.evals = 1 /\ r.ret = NoneResult
       \/ r.i = 0 /\ r.evals = 2 /\ r.ret = Some(Zero)
       \/ r.i = 60 /\ r.evals = 62 /\ r.ret = Some(r.hi)

\* what one iteration does to a call: one evaluation, at the midpoint, and exactly one
\* bound moved to it; a call leaves the loop only after its 60th iteration
IterationShape(c, c2, stress_mult) ==
    (c.pc = "loop" /\ c2 # c) =>
        LET m == Fl(RDiv(RAdd(c.lo, c.hi), FromInt(2)))
            ok == RGe(compute(deal, m, stress_mult).dscr, target_dscr)
        IN  \/ /\ c2.pc = "loop"
               /\ c2.i = c.i + 1
               /\ c2.evals = c.evals + 1
               /\ c2.mid = m
               /\ IF ok THEN c2.hi = m /\ c2.lo = c.lo ELSE c2.lo = m /\ c2.hi = c.hi
            \/ c2 = Idle /\ c.i = 60

\* the steps a call in progress has taken
Progress(c) == IF c.pc = "idle" THEN 0 ELSE 1 + c.i

\* a bound on the steps left, which every step lowers
Rank ==
    (IF pc = "evaluate" THEN 1 ELSE 0) + (Len(cases) - Len(rows))
    + 200 * (Len(solver_cases) - Len(min_down)) - Progress(solver) - Progress(app_solver)

\* a program that is not done can take a step
CanStep == CanEvaluate \/ CanStressCase \/ CanEnter \/ CanIterate \/ CanReturn

SolverSound ==
    /\ Rank >= 0
    /\ pc # "done" => CanStep
    /\ \A k \in 1..Len(min_down) :
           ReturnedShape(min_down[k]) /\ ReturnedShape(app_min_down[k])

\* C9: both programs terminate (while not done they can take a step, and every step
\* lowers a bound on the steps left); every solver call has returned early or after
\* exactly 60 iterations with the final hi; every iteration evaluates the DSCR once,
\* at the midpoint, and moves exactly one bound to it
C9_SolverTerminates ==
    /\ SolverSound
    /\ [][/\ SolverSound'
          /\ Rank' < Rank
          /\ pc = "solve" =>
                 /\ IterationShape(solver, solver', stress_now)
                 /\ IterationShape(app_solver, app_solver', stress_now)]_vars

C9_Witness ==
    /\ pc = "done"
    /\ min_down[1].i = 60
    /\ app_min_down[2].i = 60

AppSide(r) ==
    <<r.normalized_earnings, r.seller_note, r.bank_base_loan, r.fee, r.bank_loan,
      r.bank_annual, r.seller_annual, r.total_debt, r.dscr, r.after_debt>>

CliSide(r) ==
    <<r.normalized_earnings, r.seller_note, r.bank_base_loan, r.fee, r.bank_loan,
      r.bank_annual, r.seller_annual, r.total_annual_debt, r.dscr, r.after_debt>>

\* C10: on the same inputs the dashboard's compute and solver return what the
\* command-line program's return
C10_VariantsAgree ==
    /\ pc # "evaluate" => AppSide(app_base) = CliSide(base)
    /\ \A k \in 1..Len(rows) :
           /\ app_rows[k] = <<rows[k].normalized_earnings, rows[k].dscr, rows[k].after_debt>>
           /\ Fresh => AppSide(App_compute(deal, down_payment, cases[k])) = CliSide(rows[k])
    /\ Len(app_min_down) = Len(min_down)
    /\ \A k \in 1..Len(min_down) : app_min_down[k].ret = min_down[k].ret

C10_Witness ==
    /\ pc = "done"
    /\ RLt(down_payment, deal.purchase_price)
    /\ RGt(base.bank_base_loan, Zero)
    /\ ~min_down[2].ret.none
    /\ RGt(app_min_down[2].ret.value, Zero)
====
